---- MODULE Spec2Model ----
(***************************************************************************)
(* A model of .github/scripts/fix-gosec-sarif.py: main() and               *)
(* fix_gosec_sarif(), the two files they touch, and the JSON document in   *)
(* between.                                                                *)
(*                                                                         *)
(* Python strings are sequences of one-character strings, so that          *)
(* iterating a string and the substring test 'fixes' in s are computed.    *)
(* A parsed JSON value is a tagged tuple:                                  *)
(*   <<"null">>  <<"bool", b>>  <<"num", lexeme>>  <<"str", chars>>        *)
(*   <<"arr", <<v1, ..., vn>>>>  <<"obj", <<<<k1, v1>>, ..., <<kn, vn>>>>>>*)
(* an object being a dict: its pairs in insertion order, keys unique.      *)
(* The content of a file is                                                *)
(*   <<"absent">>                    no file at the path                   *)
(*   <<"json", format, tree>>        a JSON text, tree as it is written    *)
(*                                   (duplicate keys, number lexemes)      *)
(*   <<"garbage", name>>             bytes that are not JSON               *)
(*   <<"partial", content>>          a truncated write of content          *)
(*                                                                         *)
(* What is outside the program: each path is a regular file or absent and  *)
(* the working directory can be searched; opening the input, writing the   *)
(* output and copying may each fail; print does not raise; nothing else    *)
(* touches the two files while the script runs.                            *)
(***************************************************************************)
EXTENDS Integers, Sequences, FiniteSets, TLC

VARIABLES fs, env, pc, data, i, j, fixed_count, exc, ret, raised, exit,
          stdout, stderr, copies, writes, prior, run, first

vars == <<fs, env, pc, data, i, j, fixed_count, exc, ret, raised, exit,
          stdout, stderr, copies, writes, prior, run, first>>

(* ---------------- bounds of the model ---------------- *)
MaxRuns == 2
MaxResults == 2

(* ---------------- names the code fixes ---------------- *)
input_file == "gosec-raw.sarif"
output_file == "gosec.sarif"
FIXES == <<"f", "i", "x", "e", "s">>
RUNS == <<"r", "u", "n", "s">>
RESULTS == <<"r", "e", "s", "u", "l", "t", "s">>
RULEID == <<"r", "u", "l", "e", "I", "d">>
VERSION == <<"v", "e", "r", "s", "i", "o", "n">>

(* ---------------- JSON values ---------------- *)
JNull == <<"null">>
JBool(b) == <<"bool", b>>
JNum(lexeme) == <<"num", lexeme>>
JStr(s) == <<"str", s>>
JArr(a) == <<"arr", a>>
JObj(pairs) == <<"obj", pairs>>
Kind(v) == v[1]
EmptyList == JArr(<<>>)

Absent == <<"absent">>
Text(fmt, tree) == <<"json", fmt, tree>>
Garbage(name) == <<"garbage", name>>
Partial(content) == <<"partial", content>>

(* ---------------- dict, str and list operations of Python ------------- *)
KeyIndex(pairs, k) ==
  IF \E n \in 1..Len(pairs) : pairs[n][1] = k
  THEN CHOOSE n \in 1..Len(pairs) : pairs[n][1] = k
  ELSE 0

HasKey(pairs, k) == \E n \in 1..Len(pairs) : pairs[n][1] = k

(* d[k] = v: an existing key keeps its place, a new one goes last *)
DictSet(pairs, k, v) ==
  IF HasKey(pairs, k)
  THEN [n \in 1..Len(pairs) |-> IF pairs[n][1] = k THEN <<k, v>> ELSE pairs[n]]
  ELSE Append(pairs, <<k, v>>)

(* d.get(k, default) *)
DictGet(pairs, k, default) ==
  IF HasKey(pairs, k) THEN pairs[KeyIndex(pairs, k)][2] ELSE default

(* del d[k], for a key that is present *)
DictDel(pairs, k) ==
  LET n == KeyIndex(pairs, k)
  IN  SubSeq(pairs, 1, n - 1) \o SubSeq(pairs, n + 1, Len(pairs))

(* needle in haystack, for two str *)
IsSubstring(needle, hay) ==
  \E n \in 1..(Len(hay) - Len(needle) + 1) :
     SubSeq(hay, n, n + Len(needle) - 1) = needle

(* hasattr(v, 'get'): of the JSON types only dict has the method *)
HasGetMethod(v) == Kind(v) = "obj"

(* mutant of Iterable: "x.get(key) or []", which takes null for empty *)
Iterable_nullAsEmpty(v) == Kind(v) \in {"arr", "str", "obj", "null"}

(* iter(v) succeeds for list, str and dict *)
Iterable(v) == Kind(v) \in {"arr", "str", "obj"}

(* what "for x in v" visits: the elements of a list, the characters of a
   str, the keys of a dict *)
Items(v) ==
  CASE Kind(v) = "arr" -> v[2]
    [] Kind(v) = "str" -> [n \in 1..Len(v[2]) |-> JStr(<<v[2][n]>>)]
    [] Kind(v) = "obj" -> [n \in 1..Len(v[2]) |-> JStr(v[2][n][1])]
    [] OTHER -> <<>>

(* 'fixes' in v is defined for dict (a key), str (a substring) and list (an
   equal element); for None, bool and numbers it raises TypeError *)
ContainsDefined(v) == Kind(v) \in {"obj", "str", "arr"}

(* mutant of ContainsFixes: "if result.get('fixes')", which takes a null or
   empty "fixes" for a missing one *)
ContainsFixes_truthy(v) ==
  /\ Kind(v) = "obj"
  /\ HasKey(v[2], FIXES)
  /\ DictGet(v[2], FIXES, JNull) \notin {JNull, JArr(<<>>), JBool(FALSE)}

ContainsFixes(v) ==
  CASE Kind(v) = "obj" -> HasKey(v[2], FIXES)
    [] Kind(v) = "str" -> IsSubstring(FIXES, v[2])
    [] Kind(v) = "arr" -> \E n \in 1..Len(v[2]) : v[2][n] = JStr(FIXES)
    [] OTHER -> FALSE

(* del v['fixes'] is defined for dict only; str and list raise TypeError *)
DelDefined(v) == Kind(v) = "obj"

(* mutants of DelFixes: the key is looked at and left in place; the whole
   result is emptied *)
DelFixes_keeps(v) == v
DelFixes_clears(v) == JObj(<<>>)

DelFixes(v) == JObj(DictDel(v[2], FIXES))

(* ---------------- json.load and json.dump ---------------- *)
(* float(lexeme) printed back by repr: an exponent form becomes a decimal *)
NumValue(lexeme) == IF lexeme = "1e0" THEN "1.0" ELSE lexeme

RECURSIVE Parse(_)
RECURSIVE ParsePairs(_, _)
(* the decoder builds each object with dict(pairs): a repeated key keeps its
   first position and takes its last value *)
ParsePairs(pairs, acc) ==
  IF pairs = <<>> THEN acc
  ELSE ParsePairs(Tail(pairs), DictSet(acc, Head(pairs)[1], Parse(Head(pairs)[2])))

Parse(tree) ==
  CASE Kind(tree) = "arr" -> JArr([n \in 1..Len(tree[2]) |-> Parse(tree[2][n])])
    [] Kind(tree) = "obj" -> JObj(ParsePairs(tree[2], <<>>))
    [] Kind(tree) = "num" -> JNum(NumValue(tree[2]))
    [] OTHER -> tree

(* whether the bytes decode as one JSON text *)
IsJson(content) == content[1] = "json"

(* json.load(f) of a file holding a JSON text *)
Load(content) == Parse(content[3])

(* json.dump(data, f, indent=2): the whole text, when the write completes *)
Dump(value) == Text("indent2", value)

(* ---------------- the documents the model starts from ---------------- *)
TOOL == <<"t", "o", "o", "l">>
SeqsUpTo(S, n) == UNION {[1..m -> S] : m \in 0..n}

Plain == JObj(<< <<RULEID, JStr(<<"G">>)>> >>)
WithFixes ==
  JObj(<< <<RULEID, JStr(<<"G">>)>>, <<FIXES, JArr(<<JStr(<<"x">>)>>)>> >>)
(* "fixes" present with a null value, and a "fixes" one level further down *)
FixesNull ==
  JObj(<< <<FIXES, JNull>>, <<RULEID, JObj(<< <<FIXES, JNum("1e0")>> >>)>> >>)
(* a text that repeats keys *)
Repeated ==
  JObj(<< <<FIXES, JNull>>, <<RULEID, JStr(<<"A">>)>>, <<FIXES, JNum("1")>>,
          <<RULEID, JStr(<<"G">>)>> >>)

RunObj(results) == JObj(<< <<TOOL, JStr(<<"g">>)>>, <<RESULTS, results>> >>)
ResultSeqs == SeqsUpTo({Plain, WithFixes}, MaxResults)
WellFormedRuns == {RunObj(JArr(r)) : r \in ResultSeqs}

(* values that raise at "'fixes' in result" or at "del result['fixes']" *)
RaisingResults == {JNum("1"), JNull, JStr(FIXES), JArr(<<JStr(FIXES)>>)}
OddResultSeqs ==
  {r \o <<b>> : r \in SeqsUpTo({Plain, WithFixes}, MaxResults - 1),
                b \in RaisingResults}
  \cup {<<JStr(<<"G">>), WithFixes>>, <<JArr(<<>>), WithFixes>>,
        <<FixesNull>>, <<Repeated>>}

NonSequences ==
  {JNull, JNum("1"), JBool(TRUE), JStr(<<>>), JStr(FIXES), JObj(<<>>),
   JObj(<< <<RULEID, WithFixes>> >>), JObj(<< <<FIXES, Plain>> >>)}

SpecialRuns ==
  {RunObj(JArr(r)) : r \in OddResultSeqs}
  \cup {RunObj(v) : v \in NonSequences}
  \cup {JObj(<< <<TOOL, JStr(<<"g">>)>> >>),
        JObj(<< <<FIXES, JBool(TRUE)>>, <<RESULTS, JArr(<<WithFixes>>)>> >>),
        JNum("1"), JNull, JStr(<<"a">>), JArr(<<WithFixes>>)}

FixedRun == RunObj(JArr(<<WithFixes>>))
Suffixes(p) == {t \in {<<>>, <<FixedRun>>} : Len(p) + 1 + Len(t) <= MaxRuns}
RunSeqs ==
  SeqsUpTo(WellFormedRuns, MaxRuns)
  \cup UNION {{p \o <<s>> \o q : s \in SpecialRuns, q \in Suffixes(p)} :
               p \in SeqsUpTo({FixedRun}, MaxRuns - 1)}

Doc(runs) == JObj(<< <<VERSION, JStr(<<"2">>)>>, <<RUNS, runs>> >>)
Documents ==
  {Doc(JArr(r)) : r \in RunSeqs}
  \cup {Doc(v) : v \in NonSequences}
  \cup {JObj(<< <<VERSION, JStr(<<"2">>)>> >>),
        JObj(<< <<FIXES, JArr(<<>>)>>, <<RUNS, JArr(<<FixedRun>>)>> >>),
        JArr(<<WithFixes>>), JStr(FIXES), JNull}

InputFiles ==
  {Text("compact", d) : d \in Documents}
  \cup {Garbage("truncated"), Garbage("empty"), Absent}

(* what the output path may hold before the run *)
Stale == Text("indent2", JObj(<< <<VERSION, JStr(<<"0">>)>> >>))
OutputFiles == {Absent, Stale}

(* ---------------- state ---------------- *)
(* fs           the content at each of the two paths                       *)
(* env          how the file system answers open(input), the write of the  *)
(*              output and shutil.copy: "?" until the program first asks,  *)
(*              the answer from then on (the program changes neither       *)
(*              permissions nor free space)                                *)
(* pc           the statement main or fix_gosec_sarif is at                *)
(* data, i, j, fixed_count   the locals of fix_gosec_sarif; i and j are    *)
(*              the positions of the two for loops                         *)
(* exc          the exception the except clause of line 43 handles         *)
(* ret, raised  what fix_gosec_sarif returned, or raised, to main          *)
(* exit         the status given to sys.exit                               *)
(* stdout, stderr   the lines printed                                      *)
(* copies, writes, prior, run, first   history: shutil.copy calls and      *)
(*              writes to the output path in this run, fs when the run     *)
(*              began, the number of the run, the previous run's result    *)
Paths == {input_file, output_file}
Unset == <<"unset">>
Undetermined == [read |-> "?", dump |-> "?", copy |-> "?"]

Init ==
  /\ fs \in {[p \in Paths |-> IF p = input_file THEN a ELSE b] :
                a \in InputFiles, b \in OutputFiles}
  /\ env = Undetermined
  /\ pc = "main"
  /\ data = Unset
  /\ i = 0
  /\ j = 0
  /\ fixed_count = 0
  /\ exc = "none"
  /\ ret = <<>>
  /\ raised = "none"
  /\ exit = <<>>
  /\ stdout = <<>>
  /\ stderr = <<>>
  /\ copies = 0
  /\ writes = <<>>
  /\ prior = fs
  /\ run = 1
  /\ first = <<>>

history == <<copies, writes, prior, run, first>>

(* the answers the file system may give: any, until it has given one *)
Answers(known, all) == IF known = "?" THEN all ELSE {known}

(* an exception raised inside the try block of line 27 *)
Raise(e) == exc' = e /\ pc' = "except"

RunsValue(d) == DictGet(d[2], RUNS, EmptyList)
ResultsValue(r) == DictGet(r[2], RESULTS, EmptyList)

(* data after result j of run i, a dict inside two lists, was changed in
   place to v *)
WithResult(d, ri, rj, v) ==
  LET runsv == RunsValue(d)
      r == runsv[2][ri]
      resv == ResultsValue(r)
      r2 == JObj(DictSet(r[2], RESULTS, JArr([resv[2] EXCEPT ![rj] = v])))
  IN  JObj(DictSet(d[2], RUNS, JArr([runsv[2] EXCEPT ![ri] = r2])))

(* ---------------- main, lines 54-68 ---------------- *)
(* mutant of MainMissingInput: the message is printed and sys.exit(1) is
   missing, so main goes on to call fix_gosec_sarif *)
MainMissingInput_goesOn ==
  /\ pc = "main"
  /\ fs[input_file] = Absent
  /\ stderr' = Append(stderr, <<"Input file not found", input_file>>)
  /\ pc' = "load"
  /\ UNCHANGED <<fs, env, data, i, j, fixed_count, exc, ret, raised, exit,
                 stdout, history>>

(* lines 58-60: the input does not exist *)
MainMissingInput ==
  /\ pc = "main"
  /\ fs[input_file] = Absent
  /\ stderr' = Append(stderr, <<"Input file not found", input_file>>)
  /\ exit' = <<1>>
  /\ pc' = "done"
  /\ UNCHANGED <<fs, env, data, i, j, fixed_count, exc, ret, raised, stdout, history>>

(* lines 58, 62-63: the input exists and fix_gosec_sarif is called *)
MainCallFix ==
  /\ pc = "main"
  /\ fs[input_file] # Absent
  /\ pc' = "load"
  /\ UNCHANGED <<fs, env, data, i, j, fixed_count, exc, ret, raised, exit,
                 stdout, stderr, history>>

(* lines 64-65 *)
MainReport ==
  /\ pc = "returned"
  /\ stdout' = Append(stdout, <<"Fixed gosec.sarif format", ret[1]>>)
  /\ exit' = <<0>>
  /\ pc' = "done"
  /\ UNCHANGED <<fs, env, data, i, j, fixed_count, exc, ret, raised, stderr, history>>

(* mutant of MainCatch: the failure is reported and sys.exit(1) is missing,
   so the interpreter ends with status 0 *)
MainCatch_exitsZero ==
  /\ pc = "raised"
  /\ stderr' = Append(stderr, <<"Failed to fix gosec.sarif", raised>>)
  /\ exit' = <<0>>
  /\ pc' = "done"
  /\ UNCHANGED <<fs, env, data, i, j, fixed_count, exc, ret, raised, stdout, history>>

(* lines 66-68 *)
MainCatch ==
  /\ pc = "raised"
  /\ stderr' = Append(stderr, <<"Failed to fix gosec.sarif", raised>>)
  /\ exit' = <<1>>
  /\ pc' = "done"
  /\ UNCHANGED <<fs, env, data, i, j, fixed_count, exc, ret, raised, stdout, history>>

(* ---------------- fix_gosec_sarif, lines 27-51 ---------------- *)
(* lines 28-31 *)
LoadInput ==
  /\ pc = "load"
  /\ \E a \in Answers(env.read, {"ok", "fail"}) :
       /\ env' = [env EXCEPT !.read = a]
       /\ IF a = "fail"
          THEN Raise("OSError(read)") /\ UNCHANGED <<data, fixed_count>>
          ELSE IF ~IsJson(fs[input_file])
          THEN Raise("JSONDecodeError") /\ UNCHANGED <<data, fixed_count>>
          ELSE /\ data' = Load(fs[input_file])
               /\ fixed_count' = 0
               /\ pc' = "for_runs"
               /\ exc' = exc
  /\ UNCHANGED <<fs, i, j, ret, raised, exit, stdout, stderr, history>>

(* line 32, entering the loop: data.get('runs', []) and iter() of it *)
ForRuns ==
  /\ pc = "for_runs"
  /\ IF ~HasGetMethod(data)
     THEN Raise("AttributeError") /\ i' = i
     ELSE IF ~Iterable(RunsValue(data))
     THEN Raise("TypeError") /\ i' = i
     ELSE i' = 1 /\ pc' = "next_run" /\ exc' = exc
  /\ UNCHANGED <<fs, env, data, j, fixed_count, ret, raised, exit, stdout,
                 stderr, history>>

(* mutant of RunsExhausted: the write sits inside the outer loop *)
RunsExhausted_afterFirstRun(d, ri) == ri > 1 \/ ri > Len(Items(RunsValue(d)))

(* line 32: the outer loop has visited every run *)
RunsExhausted(d, ri) == ri > Len(Items(RunsValue(d)))

(* line 32, the next run, and line 33, entering the inner loop *)
NextRun ==
  /\ pc = "next_run"
  /\ LET runs == Items(RunsValue(data))
     IN  IF RunsExhausted(data, i)
         THEN pc' = "write" /\ UNCHANGED <<j, exc>>
         ELSE IF ~HasGetMethod(runs[i])
         THEN Raise("AttributeError") /\ j' = j
         ELSE IF ~Iterable(ResultsValue(runs[i]))
         THEN Raise("TypeError") /\ j' = j
         ELSE j' = 1 /\ pc' = "next_result" /\ exc' = exc
  /\ UNCHANGED <<fs, env, data, i, fixed_count, ret, raised, exit, stdout,
                 stderr, history>>

(* lines 33-36: the next result of run i *)
NextResult ==
  /\ pc = "next_result"
  /\ LET results == Items(ResultsValue(Items(RunsValue(data))[i]))
     IN  IF j > Len(results)
         THEN /\ i' = i + 1
              /\ j' = 0
              /\ pc' = "next_run"
              /\ UNCHANGED <<data, fixed_count, exc>>
         ELSE IF ~ContainsDefined(results[j])
         THEN Raise("TypeError") /\ UNCHANGED <<data, fixed_count, i, j>>
         ELSE IF ~ContainsFixes(results[j])
         THEN j' = j + 1 /\ UNCHANGED <<data, fixed_count, i, exc, pc>>
         ELSE IF ~DelDefined(results[j])
         THEN Raise("TypeError") /\ UNCHANGED <<data, fixed_count, i, j>>
         ELSE /\ data' = WithResult(data, i, j, DelFixes(results[j]))
              /\ fixed_count' = fixed_count + 1
              /\ j' = j + 1
              /\ UNCHANGED <<i, exc, pc>>
  /\ UNCHANGED <<fs, env, ret, raised, exit, stdout, stderr, history>>

(* mutant of DumpFile: a write that stops short removes the file *)
DumpFile_removesPartial(files, answer, value) ==
  CASE answer = "ok" -> [files EXCEPT ![output_file] = Dump(value)]
    [] answer = "short" -> [files EXCEPT ![output_file] = Absent]
    [] OTHER -> files

(* lines 38-39: what open(output_file, 'w') and json.dump leave at the output
   path: opening fails and the path is left alone, or the file is truncated
   and the write stops short, or the whole text is written *)
DumpFile(files, answer, value) ==
  CASE answer = "ok" -> [files EXCEPT ![output_file] = Dump(value)]
    [] answer = "short" -> [files EXCEPT ![output_file] = Partial(Dump(value))]
    [] OTHER -> files

(* lines 38-41 *)
WriteOutput ==
  /\ pc = "write"
  /\ \E a \in Answers(env.dump, {"ok", "open", "short"}) :
       /\ env' = [env EXCEPT !.dump = a]
       /\ fs' = DumpFile(fs, a, data)
       /\ writes' = IF a = "open" THEN writes
                    ELSE Append(writes, IF a = "ok" THEN "dump" ELSE "dump-short")
       /\ IF a = "ok"
          THEN ret' = <<fixed_count>> /\ pc' = "returned" /\ exc' = exc
          ELSE Raise("OSError(write)") /\ ret' = ret
  /\ UNCHANGED <<data, i, j, fixed_count, raised, exit, stdout, stderr,
                 copies, prior, run, first>>

(* mutant of CopyFile: the two arguments swapped *)
CopyFile_swapped(files, answer) ==
  CASE answer = "ok" -> [files EXCEPT ![input_file] = files[output_file]]
    [] answer = "short" -> [files EXCEPT ![input_file] = Partial(files[output_file])]
    [] OTHER -> files

(* line 47: shutil.copy(input_file, output_file) opens the source, then
   opens and truncates the destination, then writes the source's bytes *)
CopyFile(files, answer) ==
  CASE answer = "ok" -> [files EXCEPT ![output_file] = files[input_file]]
    [] answer = "short" -> [files EXCEPT ![output_file] = Partial(files[input_file])]
    [] OTHER -> files

(* mutant of Reraised: the raise sits in the inner except clause *)
Reraised_copyError(original, copy_error) ==
  IF copy_error # "none" THEN copy_error ELSE original

(* line 51: the bare raise, after the inner try statement is over *)
Reraised(original, copy_error) == original

(* lines 43-51: the except clause *)
Fallback ==
  /\ pc = "except"
  /\ copies' = copies + 1
  /\ \E a \in (IF env.read = "fail" THEN {"source"}
                ELSE Answers(env.copy, {"ok", "open", "short"})) :
       /\ env' = IF a = "source" THEN env ELSE [env EXCEPT !.copy = a]
       /\ fs' = CopyFile(fs, a)
       /\ writes' = IF a \in {"open", "source"} THEN writes
                    ELSE Append(writes, IF a = "ok" THEN "copy" ELSE "copy-short")
       /\ IF a = "ok"
          THEN /\ stderr' = stderr \o << <<"Error fixing SARIF", exc>>,
                                          <<"Copied raw file to", output_file>> >>
               /\ raised' = Reraised(exc, "none")
          ELSE /\ stderr' = stderr \o << <<"Error fixing SARIF", exc>>,
                                          <<"Failed to copy file", "OSError(copy)">> >>
               /\ raised' = Reraised(exc, "OSError(copy)")
  /\ pc' = "raised"
  /\ UNCHANGED <<data, i, j, fixed_count, exc, ret, exit, stdout, prior, run, first>>

(* ---------------- a second run on the first run's output -------------- *)
Rerun ==
  /\ pc = "done"
  /\ run = 1
  /\ exit = <<0>>
  /\ first' = <<fs[output_file], ret[1]>>
  /\ fs' = [fs EXCEPT ![input_file] = fs[output_file]]
  /\ prior' = fs'
  /\ run' = 2
  /\ pc' = "main"
  /\ data' = Unset
  /\ i' = 0
  /\ j' = 0
  /\ fixed_count' = 0
  /\ exc' = "none"
  /\ ret' = <<>>
  /\ raised' = "none"
  /\ exit' = <<>>
  /\ stdout' = <<>>
  /\ stderr' = <<>>
  /\ copies' = 0
  /\ writes' = <<>>
  /\ env' = env

Next ==
  \/ MainMissingInput
  \/ MainCallFix
  \/ LoadInput
  \/ ForRuns
  \/ NextRun
  \/ NextResult
  \/ WriteOutput
  \/ Fallback
  \/ MainReport
  \/ MainCatch
  \/ Rerun

Spec == Init /\ [][Next]_vars

(* ======================================================================= *)
(* Properties                                                              *)
(* ======================================================================= *)
Range(seq) == {seq[n] : n \in 1..Len(seq)}

(* the run of main is over *)
Finished == pc = "done"
(* fix_gosec_sarif returned a count to main *)
Returned == ret # <<>>
(* the input as the run found it, and what json.load makes of it *)
RawInput == prior[input_file]
InputIsJson == IsJson(RawInput)
ParsedInput == Load(RawInput)
(* a file operation of the fix path failed: open(input), or the write *)
FixIoFailed == env.read = "fail" \/ env.dump \in {"open", "short"}
CopySucceeded == "copy" \in Range(writes)
CopyFailed == copies > 0 /\ ~CopySucceeded

(* the runs of doc that are objects, and its result objects <<run, result>>:
   the elements of a sequence "results" of an element of a sequence "runs" *)
RunObjects(doc) ==
  IF Kind(doc) = "obj" /\ Kind(RunsValue(doc)) = "arr"
  THEN {n \in 1..Len(RunsValue(doc)[2]) : Kind(RunsValue(doc)[2][n]) = "obj"}
  ELSE {}
RunAt(doc, n) == RunsValue(doc)[2][n]
ResultObjects(doc) ==
  UNION {IF Kind(ResultsValue(RunAt(doc, n))) = "arr"
         THEN {<<n, m>> : m \in {k \in 1..Len(ResultsValue(RunAt(doc, n))[2]) :
                                  Kind(ResultsValue(RunAt(doc, n))[2][k]) = "obj"}}
         ELSE {} : n \in RunObjects(doc)}
ResultAt(doc, pos) == ResultsValue(RunAt(doc, pos[1]))[2][pos[2]]
WithFixesKey(doc) ==
  {pos \in ResultObjects(doc) : \E n \in 1..Len(ResultAt(doc, pos)[2]) :
                                   ResultAt(doc, pos)[2][n][1] = FIXES}
FixesCount(doc) == Cardinality(WithFixesKey(doc))

(* "runs" and every "results" are absent or a sequence of objects *)
WellShaped(doc) ==
  /\ Kind(doc) = "obj"
  /\ Kind(RunsValue(doc)) = "arr"
  /\ \A n \in 1..Len(RunsValue(doc)[2]) :
       /\ Kind(RunAt(doc, n)) = "obj"
       /\ Kind(ResultsValue(RunAt(doc, n))) = "arr"
       /\ \A m \in 1..Len(ResultsValue(RunAt(doc, n))[2]) :
            Kind(ResultsValue(RunAt(doc, n))[2][m]) = "obj"

OutputHasNoFixes ==
  /\ IsJson(fs[output_file])
  /\ FixesCount(Load(fs[output_file])) = 0

(* C1, as stated: for every input that parses as a JSON object with exactly k
   result objects holding "fixes", fix_gosec_sarif returns k and the document
   at the output path has "fixes" in no result object (no file operation
   failing). *)
C1_Original ==
  (Finished /\ RawInput # Absent /\ InputIsJson /\ Kind(ParsedInput) = "obj"
      /\ ~FixIoFailed)
    => (Returned /\ ret[1] = FixesCount(ParsedInput) /\ OutputHasNoFixes)

(* C1, amended: whenever fix_gosec_sarif returns, it returns the number k of
   result objects of the parsed input that hold "fixes", and the document at
   the output path has "fixes" in no result object; and it does return when
   the input parses as an object whose "runs" and "results" are absent or
   sequences of objects and no file operation fails. *)
C1_CountAndNoFixes ==
  /\ (Returned /\ pc \in {"returned", "done"})
       => (ret[1] = FixesCount(ParsedInput) /\ OutputHasNoFixes)
  /\ (Finished /\ RawInput # Absent /\ InputIsJson /\ WellShaped(ParsedInput)
         /\ ~FixIoFailed)
       => Returned

(* C1 witness: a finished run that removed three "fixes", from two runs *)
C1_Witness ==
  /\ Finished /\ run = 1 /\ ret = <<3>>
  /\ Cardinality({pos[1] : pos \in WithFixesKey(ParsedInput)}) = 2
  /\ stdout = << <<"Fixed gosec.sarif format", 3>> >>

(* what the spec allows the fix to change: b is a with the key "fixes" taken
   out of each result object, and nothing else moved or changed *)
SameResult(a, b) ==
  IF Kind(a) = "obj"
  THEN b = JObj(SelectSeq(a[2], LAMBDA pair : pair[1] # FIXES))
  ELSE b = a
SameResults(a, b) ==
  IF Kind(a) = "arr"
  THEN /\ Kind(b) = "arr"
       /\ Len(b[2]) = Len(a[2])
       /\ \A n \in 1..Len(a[2]) : SameResult(a[2][n], b[2][n])
  ELSE b = a
SameRun(a, b) ==
  IF Kind(a) = "obj"
  THEN /\ Kind(b) = "obj"
       /\ Len(b[2]) = Len(a[2])
       /\ \A n \in 1..Len(a[2]) :
            /\ b[2][n][1] = a[2][n][1]
            /\ IF a[2][n][1] = RESULTS
               THEN SameResults(a[2][n][2], b[2][n][2])
               ELSE b[2][n][2] = a[2][n][2]
  ELSE b = a
SameRuns(a, b) ==
  IF Kind(a) = "arr"
  THEN /\ Kind(b) = "arr"
       /\ Len(b[2]) = Len(a[2])
       /\ \A n \in 1..Len(a[2]) : SameRun(a[2][n], b[2][n])
  ELSE b = a
SameExceptFixes(a, b) ==
  /\ Kind(a) = "obj"
  /\ Kind(b) = "obj"
  /\ Len(b[2]) = Len(a[2])
  /\ \A n \in 1..Len(a[2]) :
       /\ b[2][n][1] = a[2][n][1]
       /\ IF a[2][n][1] = RUNS
          THEN SameRuns(a[2][n][2], b[2][n][2])
          ELSE b[2][n][2] = a[2][n][2]

(* C2: on a successful fix the output document is the parsed input without
   the "fixes" key of its result objects: every other key and value, at every
   level, and the order of runs and results are the input's; an input with no
   "fixes" in a result object is written back equal, with count 0. *)
C2_OnlyFixesRemoved ==
  (Returned /\ pc \in {"returned", "done"}) =>
    /\ IsJson(fs[output_file])
    /\ SameExceptFixes(ParsedInput, Load(fs[output_file]))
    /\ FixesCount(ParsedInput) = 0
         => (Load(fs[output_file]) = ParsedInput /\ ret = <<0>>)

(* C2 witness: a successful run that removed one "fixes" from a result and
   kept the "fixes" key the input has at the top level *)
C2_Witness ==
  /\ Finished /\ run = 1 /\ ret = <<1>>
  /\ HasKey(ParsedInput[2], FIXES)
  /\ HasKey(Load(fs[output_file])[2], FIXES)
  /\ Load(fs[output_file]) # ParsedInput

(* C3: idempotence: after a successful run, a second run on the first run's
   output succeeds, reports 0 and writes the first run's output again. *)
C3_Idempotent ==
  (run = 2 /\ Finished) =>
    /\ exit = <<0>>
    /\ ret = <<0>>
    /\ stdout = << <<"Fixed gosec.sarif format", 0>> >>
    /\ fs[output_file] = first[1]

(* C3 witness: the second run is over and the first had removed "fixes" *)
C3_Witness == run = 2 /\ Finished /\ first[2] >= 2 /\ writes = <<"dump">>

(* C4: with no input file, main reports the missing name on standard error
   and exits 1 without calling fix_gosec_sarif or shutil.copy: nothing is
   written and the output path is as it was. *)
C4_MissingInput ==
  RawInput = Absent =>
    /\ pc \in {"main", "done"}
    /\ fs = prior
    /\ copies = 0 /\ writes = <<>> /\ data = Unset
    /\ Finished => /\ exit = <<1>>
                   /\ stderr = << <<"Input file not found", input_file>> >>
                   /\ stdout = <<>>

(* C4 witness: a finished run without input, beside an older output file *)
C4_Witness ==
  Finished /\ RawInput = Absent /\ fs[output_file] = Stale /\ exit = <<1>>

(* C5, as stated: when the input exists and is not JSON, the exit status is
   non-zero and the output path holds a byte-identical copy of the input. *)
C5_Original ==
  (Finished /\ RawInput # Absent /\ ~InputIsJson) =>
    (exit = <<1>> /\ fs[output_file] = RawInput)

(* C5, amended: when the input exists and is not JSON, the exit status is 1
   and the copy is attempted once; when the copy succeeds the output path
   holds the input byte for byte, whatever it held before, and when the copy
   fails the output path is as before or holds a truncated copy. *)
C5_FallbackCopy ==
  (Finished /\ RawInput # Absent /\ ~InputIsJson) =>
    /\ exit = <<1>>
    /\ copies = 1
    /\ CopySucceeded => fs[output_file] = RawInput
    /\ CopyFailed => fs[output_file] \in {prior[output_file], Partial(RawInput)}

(* C5 witness: a copy of an input that is not JSON replaced an older output *)
C5_Witness ==
  /\ Finished /\ RawInput = Garbage("truncated") /\ prior[output_file] = Stale
  /\ fs[output_file] = Garbage("truncated") /\ exit = <<1>>

(* C6: main always ends in sys.exit(0) or sys.exit(1): no statement leaves
   it otherwise; the status is 0 exactly when fix_gosec_sarif returned a
   count, and 1 exactly when the input was missing or fix_gosec_sarif raised,
   whether the copy succeeded or failed. *)
C6_ExitCodes ==
  /\ ~Finished => (exit = <<>> /\ ENABLED Next)
  /\ Finished =>
       /\ exit \in {<<0>>, <<1>>}
       /\ exit = <<0>> <=> Returned
       /\ exit = <<1>> <=> (RawInput = Absent \/ raised # "none")
       /\ raised # "none" => copies = 1

(* C6 witness: exit status 1 after the fix and the copy both failed *)
C6_Witness ==
  Finished /\ exit = <<1>> /\ CopyFailed /\ exc = "JSONDecodeError"

(* the three outcomes of a run in which fix_gosec_sarif was called *)
FixedDocument(content) ==
  /\ IsJson(content)
  /\ content[2] = "indent2"
  /\ SameExceptFixes(ParsedInput, content[3])
  /\ FixesCount(content[3]) = 0

(* C7, as stated: after a run the output path holds the fixed document (fix
   succeeded), a raw copy (fix failed, copy succeeded), or, when both failed,
   is absent or partially written. *)
C7_Original ==
  (Finished /\ RawInput # Absent) =>
    /\ Returned => FixedDocument(fs[output_file])
    /\ (~Returned /\ CopySucceeded) => fs[output_file] = RawInput
    /\ (~Returned /\ CopyFailed) =>
         (fs[output_file] = Absent \/ Kind(fs[output_file]) = "partial")

(* C7, amended: ... or, when both failed, is partially written or holds what
   it held before the run (absent if it was absent, the older file if there
   was one); and it is absent or partial only when both failed. *)
C7_OutputStates ==
  (Finished /\ RawInput # Absent) =>
    /\ Returned \/ CopySucceeded \/ CopyFailed
    /\ Returned => FixedDocument(fs[output_file])
    /\ (~Returned /\ CopySucceeded) => fs[output_file] = RawInput
    /\ (~Returned /\ CopyFailed) =>
         (fs[output_file] = prior[output_file] \/ Kind(fs[output_file]) = "partial")
    /\ (fs[output_file] = Absent \/ Kind(fs[output_file]) = "partial")
         => (~Returned /\ CopyFailed)

(* C7 witness: the write and the copy both failed at open, and the older
   output file is still there *)
C7_Witness ==
  /\ Finished /\ ~Returned /\ CopyFailed
  /\ exc = "OSError(write)" /\ env.copy = "open"
  /\ fs[output_file] = Stale

ProcessingFailures ==
  {"OSError(read)", "JSONDecodeError", "AttributeError", "TypeError", "OSError(write)"}

(* C8: shutil.copy is called only in a run whose try block raised, never
   after a successful fix, and once; and whether the copy succeeded or
   failed, what fix_gosec_sarif raises to main is the exception of the try
   block, not the copy's. *)
C8_FallbackOrder ==
  /\ copies <= 1
  /\ copies = 1 => (exc \in ProcessingFailures /\ ~Returned)
  /\ Returned => (copies = 0 /\ exc = "none" /\ raised = "none")
  /\ (exc # "none" /\ pc \in {"raised", "done"}) =>
       /\ copies = 1
       /\ raised = exc
       /\ stderr[1] = <<"Error fixing SARIF", exc>>
       /\ stderr[2] \in {<<"Copied raw file to", output_file>>,
                          <<"Failed to copy file", "OSError(copy)">>}
       /\ Finished => stderr[3] = <<"Failed to fix gosec.sarif", exc>>
  /\ (pc = "except") => (exc \in ProcessingFailures /\ copies = 0)

(* C8 witness: the write of the output failed, the copy failed too, and main
   was given the write's exception *)
C8_Witness ==
  /\ Finished /\ exc = "OSError(write)" /\ CopyFailed
  /\ raised = "OSError(write)" /\ copies = 1

(* "runs", or the "results" of an element of a sequence "runs", is present
   and its value is of one of the kinds *)
RunsOrResultsOfKind(doc, kinds) ==
  /\ Kind(doc) = "obj"
  /\ \/ HasKey(doc[2], RUNS) /\ Kind(RunsValue(doc)) \in kinds
     \/ \E n \in RunObjects(doc) :
          /\ HasKey(RunAt(doc, n)[2], RESULTS)
          /\ Kind(ResultsValue(RunAt(doc, n))) \in kinds
ProcessingFailed ==
  exit = <<1>> /\ ~Returned /\ copies = 1 /\ raised \in {"TypeError", "AttributeError"}

(* C9, as stated: an input that parses as an object in which "runs" or some
   run's "results" is null, a number, a boolean, a string or an object ends
   as a processing failure (no file operation failing). *)
C9_Original ==
  (Finished /\ RawInput # Absent /\ InputIsJson /\ env.read = "ok"
      /\ RunsOrResultsOfKind(ParsedInput, {"null", "num", "bool", "str", "obj"}))
    => ProcessingFailed

(* C9, amended: such an input ends as a processing failure when the value is
   null, a number or a boolean, and when "runs" is a string or an object that
   is not empty. A string or an object is otherwise iterated (its characters,
   its keys), and an empty one, or a "results" whose characters or keys do not
   contain "fixes", is passed over: the run can then succeed. *)
C9_NonSequences ==
  (Finished /\ RawInput # Absent /\ InputIsJson /\ env.read = "ok") =>
    /\ RunsOrResultsOfKind(ParsedInput, {"null", "num", "bool"}) => ProcessingFailed
    /\ ( /\ Kind(ParsedInput) = "obj"
         /\ Kind(RunsValue(ParsedInput)) \in {"str", "obj"}
         /\ Len(RunsValue(ParsedInput)[2]) > 0 ) => ProcessingFailed

(* C9 witness: null "results" in the second run, after a "fixes" was deleted
   in the first: a processing failure, and the copy was made *)
C9_Witness ==
  /\ Finished /\ InputIsJson
  /\ RunsOrResultsOfKind(ParsedInput, {"null"})
  /\ fixed_count = 1 /\ exc = "TypeError" /\ exit = <<1>> /\ CopySucceeded

(* C10, as stated: when parsing or traversal fails the only write to the
   output path is the copy, and the output then equals the raw input or is as
   it was before the run. *)
C10_Original ==
  (exc \in {"JSONDecodeError", "AttributeError", "TypeError"}
      /\ pc \in {"raised", "done"})
    => /\ writes \in {<<>>, <<"copy">>, <<"copy-short">>}
       /\ fs[output_file] \in {RawInput, prior[output_file]}

(* C10, amended: the output is written by json.dump only after both loops
   have ended without an exception, so no partly fixed document is written;
   when parsing or traversal fails the only write to the output path is the
   copy, and the output then equals the raw input, or is as it was before the
   run, or, when the copy itself stops short, holds a truncated copy of the
   raw input. *)
C10_WriteAfterTraversal ==
  /\ (writes # <<>> /\ writes[1] \in {"dump", "dump-short"}) =>
       /\ exc \in {"none", "OSError(write)"}
       /\ i = Len(Items(RunsValue(data))) + 1
       /\ FixesCount(data) = 0
  /\ pc \in {"load", "for_runs", "next_run", "next_result", "write"} =>
       (fs = prior /\ writes = <<>>)
  /\ (exc \in {"JSONDecodeError", "AttributeError", "TypeError"}
         /\ pc \in {"raised", "done"})
       => /\ writes \in {<<>>, <<"copy">>, <<"copy-short">>}
          /\ fs[output_file] \in {RawInput, prior[output_file], Partial(RawInput)}
          /\ writes = <<"copy">> <=> CopySucceeded
          /\ CopySucceeded => fs[output_file] = RawInput

(* C10 witness: the traversal failed after two deletions; only the copy wrote,
   and the output is the raw input, not the partly fixed document *)
C10_Witness ==
  /\ Finished /\ exc = "TypeError" /\ fixed_count = 2
  /\ data # ParsedInput
  /\ writes = <<"copy">> /\ fs[output_file] = RawInput

====
